---- MODULE Spec2Model ----
(***************************************************************************)
(* Model of DSAlign's align/text.py (TextCleaner, token intervals,         *)
(* LevenshteinSearch, levenshtein) and align/utils.py                      *)
(* (greedy_minimum_search, LimitingPool).                                  *)
(*                                                                         *)
(* A text is a sequence of characters; a character is a one-character      *)
(* string, except the two code points that have no ASCII spelling:         *)
(*   "U0130"  LATIN CAPITAL LETTER I WITH DOT ABOVE                        *)
(*   "U0307"  COMBINING DOT ABOVE                                          *)
(* Python indices are 0-based, sequences here are 1-based: text[p] of the  *)
(* source is text[p+1] here.  None is the string "None".                   *)
(***************************************************************************)
EXTENDS Integers, Sequences, FiniteSets, TLC

\* ---- TextCleaner (text.py 53-83)
VARIABLES original_text, alphabet, to_lower, normalize_space, dashes_to_ws,
    clean_text, positions, cleaner_pc, offset_arg, offset_result,
    reclean_text, reclean_positions

cleaner_vars == <<original_text, alphabet, to_lower, normalize_space, dashes_to_ws,
                  clean_text, positions, cleaner_pc, offset_arg, offset_result,
                  reclean_text, reclean_positions>>

\* ---- LevenshteinSearch.find_best (text.py 196-222): the reference text, the
\* call's arguments, its locals, and `refined`, the history of the calls of
\* _find_best_in_interval made by the loop (window, distance, interval)
VARIABLES text, look_for, arg_start, arg_stop, windows, candidate_windows,
    cand_idx, best_interval, best_distance, last_window_grams, refined, search_pc

search_vars == <<text, look_for, arg_start, arg_stop, windows, candidate_windows,
                 cand_idx, best_interval, best_distance, last_window_grams, refined,
                 search_pc>>

\* ---- bisecting minimizer run on a cost table: compute(p) = (cost[p], p)
VARIABLES cost, min_a, min_b, text_result, utils_result

min_vars == <<cost, min_a, min_b, text_result, utils_result>>

\* ---- LimitingPool (utils.py 123-150): the constructor's arguments, the input
\* iterator (n_items items, `pulled` of them taken), the thread that runs the
\* generator limit() for imap (feeder), the ThreadPool's task queue, workers
\* and ordered result buffer, the generator map() (consumer), and what map()
\* has yielded to its caller
VARIABLES processes, limit_factor, n_items, pulled, feeder_pc, feeder_reg,
    processed, inqueue, running, outdone, consumer_pc, consumer_reg,
    consumer_obj, delivered

pool_vars == <<processes, limit_factor, n_items, pulled, feeder_pc, feeder_reg,
               processed, inqueue, running, outdone, consumer_pc, consumer_reg,
               consumer_obj, delivered>>

vars == <<cleaner_vars, search_vars, min_vars, pool_vars>>

None == "None"

Min(a, b) == IF a < b THEN a ELSE b
Max(a, b) == IF a > b THEN a ELSE b

(***************************************************************************)
(* Python str primitives                                                   *)
(***************************************************************************)

\* c.isspace() for the characters of the model
isspace(c) == c \in {" ", "\t"}

\* str.lower() of one character: the upper-case ASCII letters of the model
\* map to their lower-case letter, U+0130 lowers to the TWO characters
\* "i" U+0307, everything else is unchanged.
lower_char(c) ==
    CASE c = "A" -> <<"a">>
      [] c = "B" -> <<"b">>
      [] c = "H" -> <<"h">>
      [] c = "W" -> <<"w">>
      [] c = "U0130" -> <<"i", "U0307">>
      [] OTHER -> <<c>>

RECURSIVE lower(_)
lower(s) == IF s = <<>> THEN <<>> ELSE lower_char(Head(s)) \o lower(Tail(s))

\* s[i:j] with Python's treatment of negative and out-of-range indices
SliceIndex(n, i) == IF i < 0 THEN Max(n + i, 0) ELSE Min(i, n)
Slice(s, i, j) ==
    LET lo == SliceIndex(Len(s), i)
        hi == SliceIndex(Len(s), j)
    IN  IF lo < hi THEN SubSeq(s, lo + 1, hi) ELSE <<>>

(***************************************************************************)
(* levenshtein (text.py 235-255)                                           *)
(***************************************************************************)

Min3(x, y, z) == Min(x, Min(y, z))

\* the inner loop `for j in range(1, n+1)`: current holds current[0..j-1]
RECURSIVE lev_row(_, _, _, _, _)
lev_row(a, bi, previous, current, j) ==
    IF j > Len(a) THEN current
    ELSE LET add    == previous[j + 1] + 1
             delete == current[j] + 1
             change == previous[j] + (IF a[j] # bi THEN 1 ELSE 0)
         IN  lev_row(a, bi, previous, Append(current, Min3(add, delete, change)), j + 1)

\* the outer loop `for i in range(1, m+1)`
RECURSIVE lev_rows(_, _, _, _)
lev_rows(a, b, current, i) ==
    IF i > Len(b) THEN current
    ELSE lev_rows(a, b, lev_row(a, b[i], current, <<i>>, 1), i + 1)

levenshtein(a0, b0) ==
    LET swap == Len(a0) > Len(b0)
        a == IF swap THEN b0 ELSE a0
        b == IF swap THEN a0 ELSE b0
        n == Len(a)
    IN  lev_rows(a, b, [j \in 1..(n + 1) |-> j - 1], 1)[n + 1]

(***************************************************************************)
(* Interval utilities (text.py 86-118)                                     *)
(***************************************************************************)

\* one `while` loop of get_token_interval, walking from pos by step
RECURSIVE token_scan(_, _, _, _, _)
token_scan(text_, pos, step, start, end) ==
    IF 0 <= pos /\ pos < Len(text_) /\ ~isspace(text_[pos + 1])
      THEN token_scan(text_, pos + step, step, Min(pos, start), Max(pos, end))
    ELSE <<start, end>>

get_token_interval(text_, at) ==
    LET left  == token_scan(text_, at, -1, Len(text_), 0)
        right == token_scan(text_, at, 1, left[1], left[2])
    IN  IF right[1] <= right[2] THEN <<right[1], right[2] + 1>> ELSE <<at, at>>

get_token_sibling(text_, interval, direction) ==
    get_token_interval(text_, IF direction < 0 THEN interval[1] - 2 ELSE interval[2] + 1)

get_interval_text(text_, interval) == Slice(text_, interval[1], interval[2])

combine_intervals(i1, i2) == <<Min(i1[1], i2[1]), Max(i1[2], i2[2])>>

interval_len(interval) == interval[2] - interval[1]

(***************************************************************************)
(* Bisecting minimizer (text.py 144-157, utils.py 73-87)                   *)
(* compute is a function from positions to <<cost, payload>>; a result is  *)
(* a non-empty tuple, so `x or y` is x unless x is None.                   *)
(***************************************************************************)

Or(x, y) == IF x # None THEN x ELSE y

\* interval_search that keeps the half of the dearer endpoint
RECURSIVE interval_search_flipped(_, _, _, _, _)
interval_search_flipped(a0, b0, compute, result_a0, result_b0) ==
    LET a == IF a0 > b0 THEN b0 ELSE a0
        b == IF a0 > b0 THEN a0 ELSE b0
    IN  IF a = b THEN Or(result_a0, Or(result_b0, compute[a]))
        ELSE
          LET result_a == Or(result_a0, compute[a])
              result_b == Or(result_b0, compute[b])
              c == (a + b) \div 2
          IN  IF b = a + 1
                THEN (IF result_a[1] < result_b[1] THEN result_a ELSE result_b)
              ELSE IF result_a[1] > result_b[1]
                THEN interval_search_flipped(a, c, compute, result_a, None)
              ELSE interval_search_flipped(c, b, compute, None, result_b)

RECURSIVE interval_search(_, _, _, _, _)
interval_search(a0, b0, compute, result_a0, result_b0) ==
    LET a == IF a0 > b0 THEN b0 ELSE a0
        b == IF a0 > b0 THEN a0 ELSE b0
    IN  IF a = b THEN Or(result_a0, Or(result_b0, compute[a]))
        ELSE
          LET result_a == Or(result_a0, compute[a])
              result_b == Or(result_b0, compute[b])
              c == (a + b) \div 2
          IN  IF b = a + 1
                THEN (IF result_a[1] < result_b[1] THEN result_a ELSE result_b)
              ELSE IF result_a[1] < result_b[1]
                THEN interval_search(a, c, compute, result_a, None)
              ELSE interval_search(c, b, compute, None, result_b)

RECURSIVE greedy_minimum_search(_, _, _, _, _)
greedy_minimum_search(a0, b0, compute, result_a0, result_b0) ==
    LET sw == a0 > b0
        a == IF sw THEN b0 ELSE a0
        b == IF sw THEN a0 ELSE b0
        ra0 == IF sw THEN result_b0 ELSE result_a0
        rb0 == IF sw THEN result_a0 ELSE result_b0
    IN  IF a = b THEN Or(ra0, Or(rb0, compute[a]))
        ELSE
          LET result_a == Or(ra0, compute[a])
              result_b == Or(rb0, compute[b])
              c == (a + b) \div 2
          IN  IF b = a + 1
                THEN (IF result_a[1] < result_b[1] THEN result_a ELSE result_b)
              ELSE IF result_a[1] < result_b[1]
                THEN greedy_minimum_search(a, c, compute, result_a, None)
              ELSE greedy_minimum_search(c, b, compute, None, result_b)

(***************************************************************************)
(* LevenshteinSearch (text.py 121-222)                                     *)
(***************************************************************************)

\* nltk.ngrams(' ' + s + ' ', 3): the trigram at each offset 0..len(s)-1
padded(s) == <<" ">> \o s \o <<" ">>
ngrams3(s) == [i \in 1..Len(s) |-> SubSeq(padded(s), i, i + 2)]

\* LevenshteinSearch.__init__: self.ngrams[ngram], the offsets (ascending)
\* at which ngram starts in the padded text; <<>> when ngram is no key
RECURSIVE bucket_from(_, _, _)
bucket_from(grams, ngram, i) ==
    IF i > Len(grams) THEN <<>>
    ELSE (IF grams[i] = ngram THEN <<i - 1>> ELSE <<>>) \o bucket_from(grams, ngram, i + 1)

ngram_bucket(text_, ngram) == bucket_from(ngrams3(text_), ngram, 1)

\* the first of [left sibling, center, right sibling] with the least distance
\* to original_text (sorted() is stable)
find_best_neighbour_token(text_, original_text_, center_interval) ==
    LET l  == get_token_sibling(text_, center_interval, -1)
        r  == get_token_sibling(text_, center_interval, 1)
        dl == levenshtein(get_interval_text(text_, l), original_text_)
        dc == levenshtein(get_interval_text(text_, center_interval), original_text_)
        dr == levenshtein(get_interval_text(text_, r), original_text_)
    IN  IF dl <= dc /\ dl <= dr THEN l
        ELSE IF dc <= dr THEN center_interval
        ELSE r

\* _find_best_in_interval 159-163: the window position with the least distance
initial_interval(text_, look_for_, start, stop) ==
    interval_search(start, stop,
        [p \in Min(start, stop)..Max(start, stop) |->
            <<levenshtein(Slice(text_, p, p + Len(look_for_)), look_for_),
              <<p, p + Len(look_for_)>>>>],
        None, None)[2]

\* 165
stretch_radius(look_for_) == Len(look_for_) \div 3

\* 167-171: move the start within the stretch radius, the end held fixed
stretch_start(text_, look_for_, iv) ==
    interval_search(iv[1] - stretch_radius(look_for_), iv[1] + stretch_radius(look_for_),
        [p \in (iv[1] - stretch_radius(look_for_))..(iv[1] + stretch_radius(look_for_)) |->
            <<levenshtein(Slice(text_, p, iv[2]), look_for_), <<p, iv[2]>>>>],
        None, None)[2]

\* 173-177: move the end within the stretch radius, the start held fixed
stretch_end(text_, look_for_, iv) ==
    interval_search(iv[2] - stretch_radius(look_for_), iv[2] + stretch_radius(look_for_),
        [p \in (iv[2] - stretch_radius(look_for_))..(iv[2] + stretch_radius(look_for_)) |->
            <<levenshtein(Slice(text_, iv[1], p), look_for_), <<iv[1], p>>>>],
        None, None)[2]

\* 179-181 and 185-187: the token at `at`, or the one at `retry` when that is empty
token_or_retry(token, text_, retry) ==
    IF interval_len(token) = 0 THEN get_token_interval(text_, retry) ELSE token

\* 179-183
first_original_token(text_, look_for_, iv) ==
    find_best_neighbour_token(text_,
        get_interval_text(look_for_, get_token_interval(look_for_, 0)),
        token_or_retry(get_token_interval(text_, iv[1]), text_, iv[1] + 1))

\* 185-189
last_original_token(text_, look_for_, iv) ==
    find_best_neighbour_token(text_,
        get_interval_text(look_for_, get_token_interval(look_for_, Len(look_for_) - 2)),
        token_or_retry(get_token_interval(text_, iv[2] - 1), text_, iv[2] - 2))

\* 191
snap_to_tokens(text_, look_for_, iv) ==
    combine_intervals(first_original_token(text_, look_for_, iv),
                      last_original_token(text_, look_for_, iv))

\* 192-194
with_distance(text_, look_for_, iv) ==
    <<levenshtein(Slice(text_, iv[1], iv[2]), look_for_), iv>>

\* _find_best_in_interval: <<best_distance, best_interval>>
find_best_in_interval(text_, look_for_, start, stop) ==
    with_distance(text_, look_for_,
        snap_to_tokens(text_, look_for_,
            stretch_end(text_, look_for_,
                stretch_start(text_, look_for_,
                    initial_interval(text_, look_for_, start, stop)))))

\* int(x / 2) for an integer x: Python's int() truncates toward zero
TruncHalf(x) == IF x >= 0 THEN x \div 2 ELSE -((-x) \div 2)

\* find_best 199-207: the windows voted for, one entry per vote, in the order
\* of the two loops (query trigram, then occurrence)
RECURSIVE votes_of_bucket(_, _, _, _, _)
votes_of_bucket(bucket, k, start, stop, window_size) ==
    IF k > Len(bucket) THEN <<>>
    ELSE (IF bucket[k] < start \/ bucket[k] > stop THEN <<>>
          ELSE <<bucket[k] \div window_size>>)
         \o votes_of_bucket(bucket, k + 1, start, stop, window_size)

RECURSIVE votes_from(_, _, _, _, _)
votes_from(text_, grams, i, start, stop) ==
    IF i > Len(grams) THEN <<>>
    ELSE votes_of_bucket(ngram_bucket(text_, grams[i]), 1, start, stop, Len(grams))
         \o votes_from(text_, grams, i + 1, start, stop)

\* the dict `windows`: its keys in insertion order, and its counts
RECURSIVE first_seen(_, _, _)
first_seen(votes, i, seen) ==
    IF i > Len(votes) THEN <<>>
    ELSE IF votes[i] \in seen THEN first_seen(votes, i + 1, seen)
    ELSE <<votes[i]>> \o first_seen(votes, i + 1, seen \cup {votes[i]})

vote_count(votes, w) == Cardinality({i \in 1..Len(votes) : votes[i] = w})

\* sorted(keys, key=count, reverse=True): stable, so equal counts keep the
\* insertion order; an insertion sort from the left does the same
RECURSIVE insert_by_count(_, _, _)
insert_by_count(sorted, w, votes) ==
    IF sorted = <<>> THEN <<w>>
    ELSE IF vote_count(votes, Head(sorted)) >= vote_count(votes, w)
      THEN <<Head(sorted)>> \o insert_by_count(Tail(sorted), w, votes)
    ELSE <<w>> \o sorted

RECURSIVE sort_by_count(_, _, _)
sort_by_count(keys, i, votes) ==
    IF i = 0 THEN <<>>
    ELSE insert_by_count(sort_by_count(keys, i - 1, votes), keys[i], votes)

(***************************************************************************)
(* TextCleaner                                                             *)
(***************************************************************************)

\* Alphabet.has_label as used by TextCleaner: membership of a character
has_label(alpha, c) == c \in alpha

\* clean_loop with the dash replacement moved after the whitespace step
RECURSIVE clean_loop_dash_late(_, _, _, _, _, _, _, _)
clean_loop_dash_late(prepared, alpha, ns, dw, position, cleaned, poss, ws) ==
    IF position >= Len(prepared) THEN <<cleaned, poss>>
    ELSE
      LET c0 == prepared[position + 1]
      IN  IF ns /\ isspace(c0) /\ ws
            THEN clean_loop_dash_late(prepared, alpha, ns, dw, position + 1, cleaned, poss, ws)
          ELSE
            LET spaced == ns /\ isspace(c0)
                ws1 == IF spaced THEN TRUE ELSE ws
                c1  == IF spaced THEN " " ELSE c0
                c2  == IF dw /\ c1 = "-" /\ ~has_label(alpha, "-") THEN " " ELSE c1
            IN  IF ~has_label(alpha, c2)
                  THEN clean_loop_dash_late(prepared, alpha, ns, dw, position + 1, cleaned, poss, ws1)
                ELSE clean_loop_dash_late(prepared, alpha, ns, dw, position + 1,
                                Append(cleaned, c2), Append(poss, position),
                                IF ~isspace(c2) THEN FALSE ELSE ws1)

\* One run of the loop of TextCleaner.__init__ from `position` on, with the
\* accumulators cleaned / positions / ws.  Result: <<clean_text, positions>>.
RECURSIVE clean_loop(_, _, _, _, _, _, _, _)
clean_loop(prepared, alpha, ns, dw, position, cleaned, poss, ws) ==
    IF position >= Len(prepared) THEN <<cleaned, poss>>
    ELSE
      LET c0 == prepared[position + 1]
          c1 == IF dw /\ c0 = "-" /\ ~has_label(alpha, "-") THEN " " ELSE c0
      IN  IF ns /\ isspace(c1) /\ ws
            THEN clean_loop(prepared, alpha, ns, dw, position + 1, cleaned, poss, ws)
          ELSE
            LET spaced == ns /\ isspace(c1)
                ws1 == IF spaced THEN TRUE ELSE ws
                c2  == IF spaced THEN " " ELSE c1
            IN  IF ~has_label(alpha, c2)
                  THEN clean_loop(prepared, alpha, ns, dw, position + 1, cleaned, poss, ws1)
                ELSE clean_loop(prepared, alpha, ns, dw, position + 1,
                                Append(cleaned, c2), Append(poss, position),
                                IF ~isspace(c2) THEN FALSE ELSE ws1)

\* TextCleaner.__init__ that never lower-cases
TextCleaner_init_no_lower(raw, alpha, tl, ns, dw) ==
    clean_loop(raw, alpha, ns, dw, 0, <<>>, <<>>, FALSE)

\* TextCleaner.__init__: <<clean_text, positions>>
TextCleaner_init(raw, alpha, tl, ns, dw) ==
    clean_loop(IF tl THEN lower(raw) ELSE raw, alpha, ns, dw, 0, <<>>, <<>>, FALSE)

\* TextCleaner.get_original_offset.  Outcome [raised, value]: an IndexError
\* that leaves the method, or the returned value (None when the bare except
\* swallowed the IndexError and the method fell off its end).
get_original_offset(poss, clean_offset) ==
    LET n == Len(poss) IN
    IF clean_offset = n
      THEN IF n = 0 THEN [raised |-> TRUE, value |-> None]
           ELSE [raised |-> FALSE, value |-> poss[n] + 1]
    ELSE IF 0 <= clean_offset /\ clean_offset < n
      THEN [raised |-> FALSE, value |-> poss[clean_offset + 1]]
    ELSE IF -n <= clean_offset /\ clean_offset < 0
      THEN [raised |-> FALSE, value |-> poss[n + clean_offset + 1]]
    ELSE [raised |-> FALSE, value |-> None]

\* find_best 213: `windows[window] / last_window_grams < 0.8`, with
\* last_window_grams kept in tenths (0.1 is 1, a count n is 10 n)
vote_drop(count, last_tenths) == 100 * count < 8 * last_tenths

\* find_best 219 with <= for <: a later candidate replaces an equally good one
is_better_or_equal(best_interval_, best_distance_, interval_distance) ==
    best_interval_ = None \/ interval_distance <= best_distance_

\* find_best 219: `not best_interval or interval_distance < best_distance`
\* (an interval is a non-empty tuple, which is true even when it is (0, 0))
is_better(best_interval_, best_distance_, interval_distance) ==
    best_interval_ = None \/ interval_distance < best_distance_

\* find_best 212: candidate_windows[:10]
MaxCandidates == 10

\* find_best 216-217
interval_start_of(window, start, window_size) ==
    Max(start, TruncHalf((2 * window - 1) * window_size))
interval_stop_of(window, stop, window_size) ==
    Min(stop - window_size, TruncHalf((2 * window + 1) * window_size))

\* ---- the state of the components a specification does not run
SearchIdle ==
    /\ text = <<>>
    /\ look_for = <<>>
    /\ arg_start = 0
    /\ arg_stop = -1
    /\ windows = <<>>
    /\ candidate_windows = <<>>
    /\ cand_idx = 0
    /\ best_interval = None
    /\ best_distance = -1
    /\ last_window_grams = 1
    /\ refined = <<>>
    /\ search_pc = "idle"

CleanerIdle ==
    /\ original_text = <<>>
    /\ alphabet = {}
    /\ to_lower = TRUE
    /\ normalize_space = TRUE
    /\ dashes_to_ws = TRUE
    /\ clean_text = <<>>
    /\ positions = <<>>
    /\ cleaner_pc = "idle"
    /\ offset_arg = None
    /\ offset_result = None
    /\ reclean_text = None
    /\ reclean_positions = None

MinIdle ==
    /\ cost = <<>>
    /\ min_a = 0
    /\ min_b = 0
    /\ text_result = None
    /\ utils_result = None

PoolIdle ==
    /\ processes = 1
    /\ limit_factor = 1
    /\ n_items = 0
    /\ pulled = 0
    /\ feeder_pc = "idle"
    /\ feeder_reg = 0
    /\ processed = 0
    /\ inqueue = <<>>
    /\ running = <<>>
    /\ outdone = {}
    /\ consumer_pc = "idle"
    /\ consumer_reg = 0
    /\ consumer_obj = 0
    /\ delivered = <<>>

\* ---- bounds and inputs of the TextCleaner specification
MaxRawLen == 3
OffsetSlack == 2

RawChars == {"a", "A", " ", "\t", "-", "U0130"}
LowerLetters == {"a", "b", "d", "e", "h", "i", "l", "o", "r", "w"}
Alphabets == {LowerLetters \cup S : S \in SUBSET {" ", "\t", "-", "A"}} \cup {{}}

SeqsUpTo(S, n) == UNION {[1..k -> S] : k \in 0..n}

HelloWorld == <<"H","e","l","l","o","-","-","-","W","o","r","l","d","!","!">>

RawTexts == SeqsUpTo(RawChars, MaxRawLen) \cup {HelloWorld}

CleanerInit ==
    /\ original_text \in RawTexts
    /\ alphabet \in Alphabets
    /\ to_lower \in BOOLEAN
    /\ normalize_space \in BOOLEAN
    /\ dashes_to_ws \in BOOLEAN
    /\ clean_text = <<>>
    /\ positions = <<>>
    /\ cleaner_pc = "new"
    /\ offset_arg = None
    /\ offset_result = None
    /\ reclean_text = None
    /\ reclean_positions = None
    /\ SearchIdle /\ MinIdle /\ PoolIdle

\* cleaner = TextCleaner(original_text, alphabet, to_lower, normalize_space, dashes_to_ws)
Construct ==
    /\ cleaner_pc = "new"
    /\ LET r == TextCleaner_init(original_text, alphabet, to_lower, normalize_space, dashes_to_ws)
       IN  /\ clean_text' = r[1]
           /\ positions' = r[2]
    /\ cleaner_pc' = "built"
    /\ UNCHANGED <<original_text, alphabet, to_lower, normalize_space, dashes_to_ws,
                   offset_arg, offset_result, reclean_text, reclean_positions>>
    /\ UNCHANGED <<search_vars, min_vars, pool_vars>>

\* cleaner.get_original_offset(k)
GetOriginalOffset ==
    /\ cleaner_pc = "built"
    /\ \E k \in (0 - OffsetSlack)..(Len(positions) + OffsetSlack) :
         /\ offset_arg' = k
         /\ offset_result' = get_original_offset(positions, k)
    /\ cleaner_pc' = "queried"
    /\ UNCHANGED <<original_text, alphabet, to_lower, normalize_space, dashes_to_ws,
                   clean_text, positions, reclean_text, reclean_positions>>
    /\ UNCHANGED <<search_vars, min_vars, pool_vars>>

\* TextCleaner(cleaner.clean_text, alphabet, same flags)
Reclean ==
    /\ cleaner_pc = "built"
    /\ LET r == TextCleaner_init(clean_text, alphabet, to_lower, normalize_space, dashes_to_ws)
       IN  /\ reclean_text' = r[1]
           /\ reclean_positions' = r[2]
    /\ cleaner_pc' = "recleaned"
    /\ UNCHANGED <<original_text, alphabet, to_lower, normalize_space, dashes_to_ws,
                   clean_text, positions, offset_arg, offset_result>>
    /\ UNCHANGED <<search_vars, min_vars, pool_vars>>

CleanerNext == Construct \/ GetOriginalOffset \/ Reclean

SpecCleaner == CleanerInit /\ [][CleanerNext]_vars

(***************************************************************************)
(* LevenshteinSearch(text).find_best(look_for, arg_start, arg_stop)        *)
(***************************************************************************)
MaxTextLen == 4
MaxQueryLen == 3

\* the start and stop arguments tried: the defaults (0, -1) and a narrowed range
StartArgs == {0, 1}
StopArgs == {-1, 2}

SearchChars == {"a", "b", " "}

\* a text with more than MaxCandidates one-vote windows for the query "a":
\* "a a a ... a", MaxCandidates + 1 times "a"
ManyTokens == [i \in 1..(2 * MaxCandidates + 1) |-> IF i % 2 = 1 THEN "a" ELSE " "]

SeqsFromTo(S, m, n) == UNION {[1..k -> S] : k \in m..n}

SearchInit ==
    /\ text \in SeqsUpTo(SearchChars, MaxTextLen) \cup {ManyTokens}
    /\ look_for \in SeqsFromTo(SearchChars, 1, MaxQueryLen)
    /\ arg_start \in StartArgs
    /\ arg_stop \in StopArgs
    /\ windows = <<>>
    /\ candidate_windows = <<>>
    /\ cand_idx = 0
    /\ best_interval = None
    /\ best_distance = -1
    /\ last_window_grams = 1
    /\ refined = <<>>
    /\ search_pc = "call"
    /\ CleanerIdle /\ MinIdle /\ PoolIdle

\* find_best 197
stop_of(text_, stop) == IF stop < 0 THEN Len(text_) ELSE stop

\* find_best 197-211: the votes, the ranking, the loop's locals
FindBestVote ==
    /\ search_pc = "call"
    /\ LET votes == votes_from(text, ngrams3(look_for), 1, arg_start, stop_of(text, arg_stop))
           keys  == first_seen(votes, 1, {})
       IN  /\ windows' = votes
           /\ candidate_windows' = sort_by_count(keys, Len(keys), votes)
    /\ cand_idx' = 0
    /\ best_interval' = None
    /\ best_distance' = -1
    /\ last_window_grams' = 1
    /\ search_pc' = "loop"
    /\ UNCHANGED <<text, look_for, arg_start, arg_stop, refined>>
    /\ UNCHANGED <<cleaner_vars, min_vars, pool_vars>>

LoopHasNext == cand_idx < Len(candidate_windows) /\ cand_idx < MaxCandidates

\* find_best 212-221: one pass of the loop body that does not break
FindBestRefine ==
    /\ search_pc = "loop"
    /\ LoopHasNext
    /\ LET window == candidate_windows[cand_idx + 1]
           count  == vote_count(windows, window)
           stop   == stop_of(text, arg_stop)
           window_size == Len(look_for)
           r == find_best_in_interval(text, look_for,
                    interval_start_of(window, arg_start, window_size),
                    interval_stop_of(window, stop, window_size))
       IN  /\ ~vote_drop(count, last_window_grams)
           /\ last_window_grams' = 10 * count
           /\ IF is_better(best_interval, best_distance, r[1])
                THEN best_interval' = r[2] /\ best_distance' = r[1]
                ELSE UNCHANGED <<best_interval, best_distance>>
           /\ refined' = Append(refined, [window |-> window, distance |-> r[1], interval |-> r[2]])
    /\ cand_idx' = cand_idx + 1
    /\ UNCHANGED <<text, look_for, arg_start, arg_stop, windows, candidate_windows, search_pc>>
    /\ UNCHANGED <<cleaner_vars, min_vars, pool_vars>>

\* find_best 213-214: the `break`
FindBestBreak ==
    /\ search_pc = "loop"
    /\ LoopHasNext
    /\ vote_drop(vote_count(windows, candidate_windows[cand_idx + 1]), last_window_grams)
    /\ search_pc' = "done"
    /\ UNCHANGED <<text, look_for, arg_start, arg_stop, windows, candidate_windows,
                   cand_idx, best_interval, best_distance, last_window_grams, refined>>
    /\ UNCHANGED <<cleaner_vars, min_vars, pool_vars>>

\* find_best 212, 222: the loop ran out of candidates; return best_interval, best_distance
FindBestReturn ==
    /\ search_pc = "loop"
    /\ ~LoopHasNext
    /\ search_pc' = "done"
    /\ UNCHANGED <<text, look_for, arg_start, arg_stop, windows, candidate_windows,
                   cand_idx, best_interval, best_distance, last_window_grams, refined>>
    /\ UNCHANGED <<cleaner_vars, min_vars, pool_vars>>

SearchNext == FindBestVote \/ FindBestRefine \/ FindBestBreak \/ FindBestReturn

SpecSearch == SearchInit /\ [][SearchNext]_vars

(***************************************************************************)
(* Claims about find_best                                                  *)
(***************************************************************************)

\* the occurrences (i, j) of look_for in text: look_for = text[i:j]
Occurrences ==
    {ij \in (0..Len(text)) \X (0..Len(text)) :
        ij[1] < ij[2] /\ Slice(text, ij[1], ij[2]) = look_for}

\* C1 (as claimed): when look_for is a non-empty exact substring text[i:j],
\* find_best(look_for) (default start and stop) returns distance 0 and an
\* interval (start, end) with start <= i and j <= end.  Where look_for occurs
\* more than once, one occurrence inside the interval is enough here.
C1_ExactSubstringFound ==
    (search_pc = "done" /\ arg_start = 0 /\ arg_stop = -1 /\ Occurrences # {}) =>
        /\ best_interval # None
        /\ best_distance = 0
        /\ \E ij \in Occurrences : best_interval[1] <= ij[1] /\ ij[2] <= best_interval[2]

\* C2 (as claimed): every non-null interval find_best returns satisfies
\* 0 <= start <= end <= len(text), for any text, query, start and stop.
C2_ResultWithinText ==
    (search_pc = "done" /\ best_interval # None) =>
        /\ 0 <= best_interval[1]
        /\ best_interval[1] <= best_interval[2]
        /\ best_interval[2] <= Len(text)

\* the number of candidates the claim says are refined: the longest prefix,
\* of at most 10 entries, of the ranked list in which every candidate has at
\* least 80% of the votes of the one before it
PrefixKept(k) ==
    \A j \in 2..k : 5 * vote_count(windows, candidate_windows[j])
                      >= 4 * vote_count(windows, candidate_windows[j - 1])
ExpectedRefined ==
    CHOOSE k \in 0..Min(10, Len(candidate_windows)) :
        /\ PrefixKept(k)
        /\ \A m \in (k + 1)..Min(10, Len(candidate_windows)) : ~PrefixKept(m)

\* C9: when find_best returns, the candidates are ranked by descending vote
\* count, the refined ones are exactly the first ExpectedRefined of them, and
\* the result is the refinement with the least distance, the earliest-ranked
\* one among equals (None, -1 when nothing was refined).
C9_RefinesVotePrefix ==
    search_pc = "done" =>
        /\ \A j \in 1..(Len(candidate_windows) - 1) :
              vote_count(windows, candidate_windows[j]) >= vote_count(windows, candidate_windows[j + 1])
        /\ Len(refined) = ExpectedRefined
        /\ \A k \in 1..Len(refined) : refined[k].window = candidate_windows[k]
        /\ IF refined = <<>> THEN best_interval = None /\ best_distance = -1
           ELSE \E i \in 1..Len(refined) :
                  /\ best_interval = refined[i].interval
                  /\ best_distance = refined[i].distance
                  /\ \A j \in 1..Len(refined) : refined[j].distance >= refined[i].distance
                  /\ \A j \in 1..(i - 1) : refined[j].distance > refined[i].distance

\* C9 witness: find_best returned after refining two or more windows, left a
\* ranked candidate unrefined, and a lower-ranked window won with a strictly
\* lower distance.
C9_Witness ==
    /\ search_pc = "done"
    /\ Len(refined) >= 2
    /\ Len(refined) < Len(candidate_windows)
    /\ \E i \in 2..Len(refined) :
          /\ refined[i].distance < refined[1].distance
          /\ best_interval = refined[i].interval
          /\ best_interval # refined[1].interval

(***************************************************************************)
(* The bisecting minimizer on a cost table                                 *)
(***************************************************************************)
MaxPos == 3
MaxCost == 3

\* compute(p) -> (cost, payload): the payload is the position
compute_of(cost_) == [p \in DOMAIN cost_ |-> <<cost_[p], p>>]

MinInit ==
    /\ cost \in [0..MaxPos -> 0..MaxCost]
    /\ min_a \in 0..MaxPos
    /\ min_b \in 0..MaxPos
    /\ text_result = None
    /\ utils_result = None
    /\ CleanerIdle /\ SearchIdle /\ PoolIdle

\* interval_search(a, b, compute)                      (text.py)
IntervalSearch ==
    /\ text_result = None
    /\ text_result' = interval_search(min_a, min_b, compute_of(cost), None, None)
    /\ UNCHANGED <<cost, min_a, min_b, utils_result>>
    /\ UNCHANGED <<cleaner_vars, search_vars, pool_vars>>

\* greedy_minimum_search(a, b, compute)                (utils.py)
GreedyMinimumSearch ==
    /\ utils_result = None
    /\ utils_result' = greedy_minimum_search(min_a, min_b, compute_of(cost), None, None)
    /\ UNCHANGED <<cost, min_a, min_b, text_result>>
    /\ UNCHANGED <<cleaner_vars, search_vars, pool_vars>>

MinNext == IntervalSearch \/ GreedyMinimumSearch

SpecMin == MinInit /\ [][MinNext]_vars

Lo == Min(min_a, min_b)
Hi == Max(min_a, min_b)
MinCost == CHOOSE m \in {cost[p] : p \in Lo..Hi} : \A p \in Lo..Hi : cost[p] >= m

\* the cost strictly decreases up to some position of [a,b] and strictly
\* increases from it on (strictly monotone when that position is a or b)
StrictlyUnimodal ==
    \E m \in Lo..Hi :
        /\ \A p \in Lo..(m - 1) : cost[p] > cost[p + 1]
        /\ \A p \in m..(Hi - 1) : cost[p] < cost[p + 1]

\* the cost never increases over [a,b], or never decreases over [a,b]
Monotone ==
    \/ \A p \in Lo..(Hi - 1) : cost[p] >= cost[p + 1]
    \/ \A p \in Lo..(Hi - 1) : cost[p] <= cost[p + 1]

IsResultAt(result, c) ==
    \E p \in Lo..Hi : result = <<cost[p], p>> /\ cost[p] = c

\* C6 (as claimed): when the cost is unimodal over [a,b], interval_search and
\* greedy_minimum_search return the result of a position whose cost is the
\* minimum of the cost over all positions of [a,b].
C6_UnimodalFindsMinimum ==
    StrictlyUnimodal =>
        /\ text_result # None => IsResultAt(text_result, MinCost)
        /\ utils_result # None => IsResultAt(utils_result, MinCost)

\* C6 (amended): when the cost is monotone over [a,b] (never increasing, or
\* never decreasing), both return the result of a position whose cost is the
\* minimum over [a,b].
C6_MonotoneFindsMinimum ==
    Monotone =>
        /\ text_result # None => IsResultAt(text_result, MinCost)
        /\ utils_result # None => IsResultAt(utils_result, MinCost)

\* C6 witness: both searches have run over a range of four positions, given
\* as b < a, on which the cost strictly decreases, and returned its last position
C6_Witness ==
    /\ text_result # None /\ utils_result # None
    /\ min_a = Hi /\ Hi - Lo >= 3
    /\ \A p \in Lo..(Hi - 1) : cost[p] > cost[p + 1]
    /\ text_result = <<cost[Hi], Hi>>
    /\ utils_result = <<cost[Hi], Hi>>

(***************************************************************************)
(* LimitingPool.map(fun, it) iterated by a caller                          *)
(*                                                                         *)
(* pool.imap(fun, self.limit(it)) hands the generator limit(it) to the     *)
(* ThreadPool, whose task thread (the feeder) pulls it item by item and    *)
(* queues each item for the workers; the workers run fun; imap's iterator  *)
(* gives the results back in input order.  Item k of the input is k, and   *)
(* fun(k) is k.  `self.processed += 1` in the feeder and                   *)
(* `self.processed -= 1` in the consumer are a load and a store each, and  *)
(* nothing locks them.                                                     *)
(***************************************************************************)
MaxItems == 5
MaxProcesses == 2
MaxLimitFactor == 2

\* LimitingPool.__init__ 131
max_ahead == processes * limit_factor

PoolInit ==
    /\ processes \in 1..MaxProcesses
    /\ limit_factor \in 1..MaxLimitFactor
    /\ n_items \in 0..MaxItems
    /\ pulled = 0
    /\ feeder_pc = "pull"
    /\ feeder_reg = 0
    /\ processed = 0
    /\ inqueue = <<>>
    /\ running = [w \in 1..processes |-> 0]
    /\ outdone = {}
    /\ consumer_pc = "next"
    /\ consumer_reg = 0
    /\ consumer_obj = 0
    /\ delivered = <<>>
    /\ CleanerIdle /\ SearchIdle /\ MinIdle

\* limit 138: `for obj in it` takes the next item, or ends the generator
FeederPull ==
    /\ feeder_pc = "pull"
    /\ IF pulled < n_items
         THEN pulled' = pulled + 1 /\ feeder_pc' = "check"
         ELSE pulled' = pulled /\ feeder_pc' = "finished"
    /\ UNCHANGED <<processes, limit_factor, n_items, feeder_reg, processed, inqueue,
                   running, outdone, consumer_pc, consumer_reg, consumer_obj, delivered>>
    /\ UNCHANGED <<cleaner_vars, search_vars, min_vars>>

\* limit 139: `while self.processed >= self.max_ahead`
FeederCheck ==
    /\ feeder_pc = "check"
    /\ feeder_pc' = IF processed >= max_ahead THEN "sleep" ELSE "load"
    /\ UNCHANGED <<processes, limit_factor, n_items, pulled, feeder_reg, processed, inqueue,
                   running, outdone, consumer_pc, consumer_reg, consumer_obj, delivered>>
    /\ UNCHANGED <<cleaner_vars, search_vars, min_vars>>

\* limit 140: time.sleep(self.sleeping_for)
FeederSleep ==
    /\ feeder_pc = "sleep"
    /\ feeder_pc' = "check"
    /\ UNCHANGED <<processes, limit_factor, n_items, pulled, feeder_reg, processed, inqueue,
                   running, outdone, consumer_pc, consumer_reg, consumer_obj, delivered>>
    /\ UNCHANGED <<cleaner_vars, search_vars, min_vars>>

\* limit 141: `self.processed += 1`, the load
FeederLoad ==
    /\ feeder_pc = "load"
    /\ feeder_reg' = processed
    /\ feeder_pc' = "store"
    /\ UNCHANGED <<processes, limit_factor, n_items, pulled, processed, inqueue,
                   running, outdone, consumer_pc, consumer_reg, consumer_obj, delivered>>
    /\ UNCHANGED <<cleaner_vars, search_vars, min_vars>>

\* limit 141: `self.processed += 1`, the store
FeederStore ==
    /\ feeder_pc = "store"
    /\ processed' = feeder_reg + 1
    /\ feeder_pc' = "yield"
    /\ UNCHANGED <<processes, limit_factor, n_items, pulled, feeder_reg, inqueue,
                   running, outdone, consumer_pc, consumer_reg, consumer_obj, delivered>>
    /\ UNCHANGED <<cleaner_vars, search_vars, min_vars>>

\* limit 142: `yield obj`; imap's task thread queues the item for the workers
FeederYield ==
    /\ feeder_pc = "yield"
    /\ inqueue' = Append(inqueue, pulled)
    /\ feeder_pc' = "pull"
    /\ UNCHANGED <<processes, limit_factor, n_items, pulled, feeder_reg, processed,
                   running, outdone, consumer_pc, consumer_reg, consumer_obj, delivered>>
    /\ UNCHANGED <<cleaner_vars, search_vars, min_vars>>

Feeder == FeederPull \/ FeederCheck \/ FeederSleep \/ FeederLoad \/ FeederStore \/ FeederYield

\* map 145, a pool worker takes the next queued item
WorkerTake(w) ==
    /\ running[w] = 0
    /\ inqueue # <<>>
    /\ running' = [running EXCEPT ![w] = Head(inqueue)]
    /\ inqueue' = Tail(inqueue)
    /\ UNCHANGED <<processes, limit_factor, n_items, pulled, feeder_pc, feeder_reg, processed,
                   outdone, consumer_pc, consumer_reg, consumer_obj, delivered>>
    /\ UNCHANGED <<cleaner_vars, search_vars, min_vars>>

\* map 145, fun(obj) returns and its result reaches imap's iterator
WorkerFinish(w) ==
    /\ running[w] # 0
    /\ outdone' = outdone \cup {running[w]}
    /\ running' = [running EXCEPT ![w] = 0]
    /\ UNCHANGED <<processes, limit_factor, n_items, pulled, feeder_pc, feeder_reg, processed,
                   inqueue, consumer_pc, consumer_reg, consumer_obj, delivered>>
    /\ UNCHANGED <<cleaner_vars, search_vars, min_vars>>

Worker(w) == WorkerTake(w) \/ WorkerFinish(w)

\* what imap's iterator has given to map() so far
received == Len(delivered) + (IF consumer_pc \in {"load", "store", "yield"} THEN 1 ELSE 0)

\* map 145: `for obj in self.pool.imap(...)` gets the next result in input order
ConsumerNext ==
    /\ consumer_pc = "next"
    /\ (received + 1) \in outdone
    /\ consumer_obj' = received + 1
    /\ consumer_pc' = "load"
    /\ UNCHANGED <<processes, limit_factor, n_items, pulled, feeder_pc, feeder_reg, processed,
                   inqueue, running, outdone, consumer_reg, delivered>>
    /\ UNCHANGED <<cleaner_vars, search_vars, min_vars>>

\* map 146: `self.processed -= 1`, the load
ConsumerLoad ==
    /\ consumer_pc = "load"
    /\ consumer_reg' = processed
    /\ consumer_pc' = "store"
    /\ UNCHANGED <<processes, limit_factor, n_items, pulled, feeder_pc, feeder_reg, processed,
                   inqueue, running, outdone, consumer_obj, delivered>>
    /\ UNCHANGED <<cleaner_vars, search_vars, min_vars>>

\* map 146: `self.processed -= 1`, the store
ConsumerStore ==
    /\ consumer_pc = "store"
    /\ processed' = consumer_reg - 1
    /\ consumer_pc' = "yield"
    /\ UNCHANGED <<processes, limit_factor, n_items, pulled, feeder_pc, feeder_reg,
                   inqueue, running, outdone, consumer_reg, consumer_obj, delivered>>
    /\ UNCHANGED <<cleaner_vars, search_vars, min_vars>>

\* map 147: `yield obj`, and the caller asks for the next one
ConsumerYield ==
    /\ consumer_pc = "yield"
    /\ delivered' = Append(delivered, consumer_obj)
    /\ consumer_pc' = "next"
    /\ UNCHANGED <<processes, limit_factor, n_items, pulled, feeder_pc, feeder_reg, processed,
                   inqueue, running, outdone, consumer_reg, consumer_obj>>
    /\ UNCHANGED <<cleaner_vars, search_vars, min_vars>>

\* map 145: imap's iterator is exhausted (limit() has ended and every result
\* was given out), the loop and the generator map() end
ConsumerStop ==
    /\ consumer_pc = "next"
    /\ feeder_pc = "finished"
    /\ received = pulled
    /\ consumer_pc' = "done"
    /\ UNCHANGED <<processes, limit_factor, n_items, pulled, feeder_pc, feeder_reg, processed,
                   inqueue, running, outdone, consumer_reg, consumer_obj, delivered>>
    /\ UNCHANGED <<cleaner_vars, search_vars, min_vars>>

Consumer == ConsumerNext \/ ConsumerLoad \/ ConsumerStore \/ ConsumerYield \/ ConsumerStop

PoolNext ==
    \/ Feeder
    \/ \E w \in 1..processes : Worker(w)
    \/ Consumer

SpecPool == PoolInit /\ [][PoolNext]_vars

\* every thread that can run eventually runs
FairSpecPool ==
    /\ SpecPool
    /\ WF_vars(Feeder)
    /\ \A w \in 1..MaxProcesses : WF_vars(w \in 1..processes /\ Worker(w))
    /\ WF_vars(Consumer)

\* C5 (as claimed): the items pulled from the input iterator and not yet
\* yielded to the caller of map are never more than max_ahead.
C5_InFlightBounded == pulled - Len(delivered) <= max_ahead

\* the results handed to the caller are the inputs' results, in input order
AllDelivered == delivered = [k \in 1..n_items |-> k]

\* C10 (as claimed): a caller that keeps iterating map() eventually gets one
\* result per input item in input order and the iteration ends, and when it
\* has ended `processed` is 0.
C10_EndsWithCounterZero ==
    /\ <>(consumer_pc = "done" /\ AllDelivered)
    /\ [](consumer_pc = "done" => (AllDelivered /\ processed = 0))

(***************************************************************************)
(* Claims about TextCleaner                                                *)
(***************************************************************************)

\* C3 (as claimed): get_original_offset(clean_offset) raises an error for
\* every clean_offset < 0 and every clean_offset > length; it never returns
\* a value or None there.
C3_OutOfRangeOffsetRaises ==
    (cleaner_pc = "queried" /\ (offset_arg < 0 \/ offset_arg > Len(positions)))
        => offset_result.raised

\* the characters of the normalized text a raw character can become
KeptImage(r) ==
    LET ls == IF to_lower THEN {lower_char(r)[i] : i \in 1..Len(lower_char(r))} ELSE {r}
    IN  ls \cup (IF \E c \in ls : c = "-" \/ isspace(c) THEN {" "} ELSE {})

\* C4 (as claimed): after construction the offset table is as long as the
\* normalized text, strictly increasing, every entry is a raw-text position
\* in [0, len(raw)) and is the raw position of the kept character, and
\* get_original_offset(length) returns the last entry plus 1.
C4_OffsetTableInvariant ==
    cleaner_pc = "built" =>
        /\ Len(positions) = Len(clean_text)
        /\ \A k \in 1..(Len(positions) - 1) : positions[k] < positions[k + 1]
        /\ \A k \in 1..Len(positions) :
              /\ 0 <= positions[k] /\ positions[k] < Len(original_text)
              /\ clean_text[k] \in KeptImage(original_text[positions[k] + 1])
        /\ LET r == get_original_offset(positions, Len(positions))
           IN  Len(positions) > 0 => (~r.raised /\ r.value = positions[Len(positions)] + 1)

\* C7: normalizing the normalized text again, with the same oracle and flags,
\* gives the same text and the identity offset table [0, 1, ..., length-1].
C7_NormalizationIdempotent ==
    cleaner_pc = "recleaned" =>
        /\ reclean_text = clean_text
        /\ reclean_positions = [k \in 1..Len(clean_text) |-> k - 1]

\* C7 witness: a second normalization of a text the first one really changed
\* (a dash turned into a space, a character dropped) and that kept two or
\* more characters.
C7_Witness ==
    /\ cleaner_pc = "recleaned"
    /\ dashes_to_ws /\ normalize_space
    /\ Len(clean_text) >= 2
    /\ Len(clean_text) < Len(original_text)
    /\ \E k \in 1..Len(clean_text) : clean_text[k] = " " /\ original_text[positions[k] + 1] = "-"

HelloWorldScenario ==
    /\ cleaner_pc = "built"
    /\ original_text = HelloWorld
    /\ to_lower /\ normalize_space /\ dashes_to_ws
    /\ alphabet = LowerLetters \cup {" "}

\* C8 (as claimed): "Hello---World!!" normalizes to "hello world" with the
\* offset table [0,1,2,3,4,8,9,10,11,12,13].
C8_ScenarioAsClaimed ==
    HelloWorldScenario =>
        /\ clean_text = <<"h","e","l","l","o"," ","w","o","r","l","d">>
        /\ positions = <<0, 1, 2, 3, 4, 8, 9, 10, 11, 12, 13>>

\* C8 (amended): "Hello---World!!" normalizes to "hello world" with the
\* offset table [0,1,2,3,4,5,8,9,10,11,12]: the space stands at the first
\* dash (5), and the two "!" (13, 14) are dropped.
C8_ScenarioAmended ==
    HelloWorldScenario =>
        /\ clean_text = <<"h","e","l","l","o"," ","w","o","r","l","d">>
        /\ positions = <<0, 1, 2, 3, 4, 5, 8, 9, 10, 11, 12>>

\* C8 witness: the scenario's cleaner has been constructed and kept 11 characters
C8_Witness == HelloWorldScenario /\ Len(clean_text) = 11

====
